---- MODULE Spec2Model ----
(***************************************************************************)
(* A model of Rest-API-Attest.js: an express service that keeps a          *)
(* collection of user records in one JSON file (users.json) and serves     *)
(* list / get / create / full update / partial update / delete on it.      *)
(*                                                                         *)
(* JSON values are records [t, s, n, b, a]: t is the JSON type, and the    *)
(* field that belongs to the type holds the value (s: a string as a        *)
(* sequence of one-character strings, n: a number, b: a boolean, a: the    *)
(* items of an array).  A JSON object is a function from its keys to JSON  *)
(* values.  Every handler runs to its next await in one step, as node's    *)
(* event loop runs it; the awaits are fs.readFile and fs.writeFile.  The   *)
(* file holds the array itself: JSON.stringify and JSON.parse give back    *)
(* the strings, finite numbers, booleans and arrays these records hold.    *)
(***************************************************************************)
EXTENDS Integers, Sequences, FiniteSets, TLC

(***************************************************************************)
(* Bounds of the model.                                                    *)
(***************************************************************************)
\* requests that arrive in one behaviour, one at a time
MaxRequests == 4
\* requests that arrive in one behaviour, while others are being handled
MaxRacing == 2
\* requests the event loop holds at once
MaxInFlight == 2
\* the last value the clock takes
MaxClock == 2

(***************************************************************************)
(* JSON values.                                                            *)
(***************************************************************************)
Str(chars) == [t |-> "str", s |-> chars, n |-> 0, b |-> FALSE, a |-> <<>>]
Num(k) == [t |-> "num", s |-> <<>>, n |-> k, b |-> FALSE, a |-> <<>>]
Bool(x) == [t |-> "bool", s |-> <<>>, n |-> 0, b |-> x, a |-> <<>>]
Arr(items) == [t |-> "arr", s |-> <<>>, n |-> 0, b |-> FALSE, a |-> items]

\* the object with no keys
EmptyObj == [k \in {} |-> Num(0)]

\* { ...a, ...b }: the keys of both, b's value where both have the key
Spread(a, b) ==
    [k \in (DOMAIN a) \cup (DOMAIN b) |-> IF k \in DOMAIN b THEN b[k] ELSE a[k]]

(***************************************************************************)
(* Characters: what String.prototype.toLowerCase and the number and        *)
(* boolean coercions of Joi do on the alphabet of the model.               *)
(***************************************************************************)
Digits == <<"0", "1", "2", "3", "4", "5", "6", "7", "8", "9">>

IsDigit(c) == \E i \in 1..10 : Digits[i] = c

DigitVal(c) == (CHOOSE i \in 1..10 : Digits[i] = c) - 1

Uppers == <<"A", "E", "F", "I", "L", "P", "R", "S", "T", "U">>
Lowers == <<"a", "e", "f", "i", "l", "p", "r", "s", "t", "u">>

LowerChar(c) ==
    IF \E i \in 1..Len(Uppers) : Uppers[i] = c
    THEN Lowers[CHOOSE i \in 1..Len(Uppers) : Uppers[i] = c]
    ELSE c

toLowerCase(chars) == [i \in 1..Len(chars) |-> LowerChar(chars[i])]

\* parseFloat on a string of decimal digits
RECURSIVE parseFloat(_)
parseFloat(chars) ==
    IF Len(chars) = 0 THEN 0
    ELSE 10 * parseFloat(SubSeq(chars, 1, Len(chars) - 1)) + DigitVal(chars[Len(chars)])

\* Joi's number coercion accepts a string that reads as a number
IsNumeric(chars) == Len(chars) > 0 /\ \A i \in 1..Len(chars) : IsDigit(chars[i])

\* the decimal digits of a natural number
RECURSIVE DecimalString(_)
DecimalString(k) ==
    IF k < 10 THEN <<Digits[k + 1]>>
    ELSE DecimalString(k \div 10) \o <<Digits[(k % 10) + 1]>>

(***************************************************************************)
(* userSchema.                                                             *)
(***************************************************************************)
MinNameLen == 2
MaxNameLen == 50
MinAge == 1
MaxAge == 120

RequiredKeys == {"firstName", "lastName", "age", "email"}
SchemaKeys == RequiredKeys \cup {"city", "hobbies", "isActive"}
SchemaOrder == <<"firstName", "lastName", "age", "email", "city", "hobbies", "isActive">>

\* one entry of error.details: context.key and the rule that failed
Detail(key, type) == [field |-> key, type |-> type]

\* the top-level domains Joi's email rule accepts, on the model's alphabet
KnownTlds == {<<"c", "o", "m">>, <<"o", "r", "g">>}

\* Joi.string().email(): one "@", a local part, a domain that ends in a
\* dot and a known top-level domain
IsEmail(chars) ==
    \E i \in 1..Len(chars) :
        /\ chars[i] = "@"
        /\ \A j \in 1..Len(chars) : chars[j] = "@" => j = i
        /\ i > 1
        /\ \E d \in (i + 2)..Len(chars) :
            /\ chars[d] = "."
            /\ \A j \in (i + 1)..(d - 1) : chars[j] # "."
            /\ SubSeq(chars, d + 1, Len(chars)) \in KnownTlds

\* Joi.string().min(2).max(50) on the value of key
NameErrors(key, v) ==
    IF v.t # "str" THEN <<Detail(key, "string.base")>>
    ELSE IF Len(v.s) = 0 THEN <<Detail(key, "string.empty")>>
    ELSE (IF Len(v.s) < MinNameLen THEN <<Detail(key, "string.min")>> ELSE <<>>)
         \o (IF Len(v.s) > MaxNameLen THEN <<Detail(key, "string.max")>> ELSE <<>>)

\* Joi.string().email()
EmailErrors(key, v) ==
    IF v.t # "str" THEN <<Detail(key, "string.base")>>
    ELSE IF Len(v.s) = 0 THEN <<Detail(key, "string.empty")>>
    ELSE IF ~IsEmail(v.s) THEN <<Detail(key, "string.email")>>
    ELSE <<>>

\* Joi.number() with convert: a numeric string becomes its number
NumberCoerce(v) ==
    IF v.t = "str" /\ IsNumeric(v.s) THEN Num(parseFloat(v.s)) ELSE v

\* Joi.number().min(1).max(120)
AgeErrors(key, v) ==
    LET c == NumberCoerce(v) IN
    IF c.t # "num" THEN <<Detail(key, "number.base")>>
    ELSE (IF c.n < MinAge THEN <<Detail(key, "number.min")>> ELSE <<>>)
         \o (IF c.n > MaxAge THEN <<Detail(key, "number.max")>> ELSE <<>>)

\* Joi.boolean() with convert: "true" and "false", in any case, become booleans
BooleanCoerce(v) ==
    IF v.t = "str" /\ toLowerCase(v.s) = <<"t", "r", "u", "e">> THEN Bool(TRUE)
    ELSE IF v.t = "str" /\ toLowerCase(v.s) = <<"f", "a", "l", "s", "e">> THEN Bool(FALSE)
    ELSE v

BooleanErrors(key, v) ==
    IF BooleanCoerce(v).t # "bool" THEN <<Detail(key, "boolean.base")>> ELSE <<>>

\* Joi.string() on the item at index i - 1 of an array: context.key is the
\* index, written here as its decimal numeral
ItemErrors(i, v) ==
    IF v.t # "str" THEN <<Detail(ToString(i - 1), "string.base")>>
    ELSE IF Len(v.s) = 0 THEN <<Detail(ToString(i - 1), "string.empty")>>
    ELSE <<>>

RECURSIVE ItemsErrors(_, _)
ItemsErrors(items, i) ==
    IF i > Len(items) THEN <<>>
    ELSE ItemErrors(i, items[i]) \o ItemsErrors(items, i + 1)

\* Joi.array().items(Joi.string())
ArrayErrors(key, v) ==
    IF v.t # "arr" THEN <<Detail(key, "array.base")>> ELSE ItemsErrors(v.a, 1)

\* the details the schema of one key reports on body
KeyErrors(key, body) ==
    IF key \notin DOMAIN body
    THEN (IF key \in RequiredKeys THEN <<Detail(key, "any.required")>> ELSE <<>>)
    ELSE IF key \in {"firstName", "lastName", "city"} THEN NameErrors(key, body[key])
    ELSE IF key = "age" THEN AgeErrors(key, body[key])
    ELSE IF key = "email" THEN EmailErrors(key, body[key])
    ELSE IF key = "hobbies" THEN ArrayErrors(key, body[key])
    ELSE BooleanErrors(key, body[key])

RECURSIVE SchemaErrors(_, _)
SchemaErrors(body, i) ==
    IF i > Len(SchemaOrder) THEN <<>>
    ELSE KeyErrors(SchemaOrder[i], body) \o SchemaErrors(body, i + 1)

\* a sequence holding the members of a finite set of keys
RECURSIVE SeqOf(_)
SeqOf(S) ==
    IF S = {} THEN <<>>
    ELSE LET x == CHOOSE y \in S : TRUE IN <<x>> \o SeqOf(S \ {x})

\* as if the schema allowed unknown keys
UnknownErrorsNone(body) == <<>>

\* Joi.object(): a key the schema does not name is not allowed
UnknownErrors(body) ==
    LET unknown == SeqOf((DOMAIN body) \ SchemaKeys) IN
    [i \in 1..Len(unknown) |-> Detail(unknown[i], "object.unknown")]

\* the value Joi returns for a key: coerced, or the default of a missing key
Normalized(key, body) ==
    IF key \notin DOMAIN body
    THEN (IF key = "hobbies" THEN Arr(<<>>) ELSE Bool(TRUE))
    ELSE IF key = "age" THEN NumberCoerce(body[key])
    ELSE IF key = "isActive" THEN BooleanCoerce(body[key])
    ELSE body[key]

\* userSchema.validate(body) with abortEarly: false: error.details (empty
\* when there is no error) and value
validate(body) ==
    [details |-> SchemaErrors(body, 1) \o UnknownErrors(body),
     value |-> [key \in (DOMAIN body) \cup {"hobbies", "isActive"} |-> Normalized(key, body)]]

(***************************************************************************)
(* The state: users.json, the requests the event loop holds, the clock     *)
(* behind new Date() and the identifiers uuidv4 has handed out.  last,     *)
(* births and deleted record what the clients have seen.                   *)
(***************************************************************************)
VARIABLES file, reqs, now, nextId, arrived, last, births, deleted

vars == <<file, reqs, now, nextId, arrived, last, births, deleted>>

Slots == 1..MaxInFlight

\* new Date().toISOString() at clock value k
toISOString(k) == Str(<<"T">> \o DecimalString(k))

\* as if the generator handed out one identifier again and again
generateUserIdSame(k) == Str(<<"u", "0">>)

\* uuidv4(): the k-th identifier it hands out; no two calls give the same one
generateUserId(k) == Str(<<"u">> \o DecimalString(k))

\* a slot of the event loop that holds no request
NoReq ==
    [pc |-> "idle", method |-> "NONE", id |-> Str(<<>>), query |-> EmptyObj,
     body |-> EmptyObj, vdata |-> EmptyObj, users |-> <<>>, idx |-> 0,
     status |-> 0, data |-> EmptyObj, list |-> <<>>,
     meta |-> [total |-> 0, returned |-> 0], errors |-> <<>>, error |-> "none",
     pre |-> [st |-> "absent", users |-> <<>>]]

NoResp == [method |-> "NONE", id |-> Str(<<>>), body |-> EmptyObj, status |-> 0, data |-> EmptyObj]

\* users.findIndex(u => u.id === id), counted from 1; 0 when there is none
findIndex(users, id) ==
    IF \E i \in 1..Len(users) : users[i].id = id
    THEN CHOOSE i \in 1..Len(users) :
            /\ users[i].id = id
            /\ \A j \in 1..(i - 1) : users[j].id # id
    ELSE 0

\* as if splice were called without its count: users.splice(i)
spliceToEnd(users, i) == SubSeq(users, 1, i - 1)

\* users.splice(i, 1)
splice(users, i) == SubSeq(users, 1, i - 1) \o SubSeq(users, i + 1, Len(users))

\* hay.includes(needle)
includes(hay, needle) ==
    \E i \in 1..(Len(hay) + 1) :
        /\ i + Len(needle) - 1 <= Len(hay)
        /\ SubSeq(hay, i, i + Len(needle) - 1) = needle

\* the truthiness of a JSON value
Truthy(v) ==
    \/ v.t = "str" /\ Len(v.s) > 0
    \/ v.t = "num" /\ v.n # 0
    \/ v.t = "bool" /\ v.b
    \/ v.t = "arr"

\* whether the query holds a non-empty value for key
Supplied(query, key) == key \in DOMAIN query /\ Len(query[key]) > 0

\* as if the city filter compared the two strings as they are
ListFilterExactCity(users, query) ==
    LET MatchQ(user) ==
            \/ includes(toLowerCase(user.firstName.s), toLowerCase(query.q))
            \/ includes(toLowerCase(user.lastName.s), toLowerCase(query.q))
        MatchCity(user) ==
            /\ "city" \in DOMAIN user
            /\ Truthy(user.city)
            /\ user.city.s = query.city
        MatchActive(user) ==
            user.isActive = Bool(query.isActive = <<"t", "r", "u", "e">>)
        byQ == IF Supplied(query, "q") THEN SelectSeq(users, MatchQ) ELSE users
        byCity == IF Supplied(query, "city") THEN SelectSeq(byQ, MatchCity) ELSE byQ
    IN  IF Supplied(query, "isActive") THEN SelectSeq(byCity, MatchActive) ELSE byCity

\* the filters of GET /v1/users, applied one after the other
ListFilter(users, query) ==
    LET MatchQ(user) ==
            \/ includes(toLowerCase(user.firstName.s), toLowerCase(query.q))
            \/ includes(toLowerCase(user.lastName.s), toLowerCase(query.q))
        MatchCity(user) ==
            /\ "city" \in DOMAIN user
            /\ Truthy(user.city)
            /\ toLowerCase(user.city.s) = toLowerCase(query.city)
        MatchActive(user) ==
            user.isActive = Bool(query.isActive = <<"t", "r", "u", "e">>)
        byQ == IF Supplied(query, "q") THEN SelectSeq(users, MatchQ) ELSE users
        byCity == IF Supplied(query, "city") THEN SelectSeq(byQ, MatchCity) ELSE byQ
    IN  IF Supplied(query, "isActive") THEN SelectSeq(byCity, MatchActive) ELSE byCity

(***************************************************************************)
(* The handlers, from the return of readUsersFile to the next await or     *)
(* the response.  req is the request, users the array readUsersFile gave.  *)
(***************************************************************************)
\* as if GET /v1/users wrote the array it read back before it answered
ListHandlerSaves(req, users) ==
    LET filteredUsers == ListFilter(users, req.query) IN
    [req EXCEPT !.pc = "write", !.users = users, !.list = filteredUsers,
                !.meta = [total |-> Len(filteredUsers), returned |-> Len(filteredUsers)]]

ListHandler(req, users) ==
    LET filteredUsers == ListFilter(users, req.query) IN
    [req EXCEPT !.pc = "done", !.status = 200, !.list = filteredUsers,
                !.meta = [total |-> Len(filteredUsers), returned |-> Len(filteredUsers)]]

\* as if the branch of the missing record returned without a response
GetHandlerSilent(req, users) ==
    LET i == findIndex(users, req.id) IN
    IF i = 0 THEN [req EXCEPT !.pc = "pending"]
    ELSE [req EXCEPT !.pc = "done", !.status = 200, !.data = users[i]]

GetHandler(req, users) ==
    LET i == findIndex(users, req.id) IN
    IF i = 0 THEN [req EXCEPT !.pc = "done", !.status = 404]
    ELSE [req EXCEPT !.pc = "done", !.status = 200, !.data = users[i]]

\* the record POST builds: id, then the validated data, then the two timestamps
NewUser(vdata, newId, t1, t2) ==
    Spread(Spread([k \in {"id"} |-> newId], vdata),
           [k \in {"createdAt", "updatedAt"} |->
               IF k = "createdAt" THEN toISOString(t1) ELSE toISOString(t2)])

\* as if POST put the new record first (unshift for push)
PostHandlerUnshift(req, users, newId, t1, t2) ==
    LET newUser == NewUser(req.vdata, newId, t1, t2) IN
    [req EXCEPT !.pc = "write", !.users = <<newUser>> \o users, !.data = newUser]

PostHandler(req, users, newId, t1, t2) ==
    LET newUser == NewUser(req.vdata, newId, t1, t2) IN
    [req EXCEPT !.pc = "write", !.users = Append(users, newUser), !.data = newUser]

\* as if the update left updatedAt alone
UpdatedUserStale(user, fields, t) == Spread(user, fields)

\* as if the update stamped createdAt too
UpdatedUserReborn(user, fields, t) ==
    Spread(Spread(user, fields), [k \in {"createdAt", "updatedAt"} |-> toISOString(t)])

\* the record PUT builds: the stored record, then the validated data, then updatedAt
UpdatedUser(user, fields, t) ==
    Spread(Spread(user, fields), [k \in {"updatedAt"} |-> toISOString(t)])

PutHandler(req, users, t) ==
    LET i == findIndex(users, req.id) IN
    IF i = 0 THEN [req EXCEPT !.pc = "done", !.status = 404]
    ELSE LET updatedUser == UpdatedUser(users[i], req.vdata, t) IN
         [req EXCEPT !.pc = "write", !.idx = i,
                     !.users = [users EXCEPT ![i] = updatedUser],
                     !.data = updatedUser]

\* as if PATCH validated the body before it looked for the record
PatchHandlerValidatesFirst(req, users, t) ==
    LET i == findIndex(users, req.id)
        details == validate(req.body).details
    IN  IF details # <<>>
        THEN [req EXCEPT !.pc = "done", !.status = 422, !.errors = details]
        ELSE IF i = 0 THEN [req EXCEPT !.pc = "done", !.status = 404]
        ELSE LET updatedUser == UpdatedUser(users[i], req.body, t) IN
             [req EXCEPT !.pc = "write", !.idx = i,
                         !.users = [users EXCEPT ![i] = updatedUser],
                         !.data = updatedUser]

PatchHandler(req, users, t) ==
    LET i == findIndex(users, req.id)
        details == validate(req.body).details
    IN  IF i = 0 THEN [req EXCEPT !.pc = "done", !.status = 404]
        ELSE IF details # <<>>
        THEN [req EXCEPT !.pc = "done", !.status = 422, !.errors = details]
        ELSE LET updatedUser == UpdatedUser(users[i], req.body, t) IN
             [req EXCEPT !.pc = "write", !.idx = i,
                         !.users = [users EXCEPT ![i] = updatedUser],
                         !.data = updatedUser]

\* as if DELETE wrote the array back without removing the record
DeleteHandlerKeeps(req, users) ==
    LET i == findIndex(users, req.id) IN
    IF i = 0 THEN [req EXCEPT !.pc = "done", !.status = 404]
    ELSE [req EXCEPT !.pc = "write", !.idx = i, !.users = users, !.data = users[i]]

DeleteHandler(req, users) ==
    LET i == findIndex(users, req.id) IN
    IF i = 0 THEN [req EXCEPT !.pc = "done", !.status = 404]
    ELSE [req EXCEPT !.pc = "write", !.idx = i, !.users = splice(users, i),
                     !.data = users[i]]

\* as if the middleware called next() whatever the validation said
validateUserDataLenient(req) ==
    [req EXCEPT !.pc = "read", !.vdata = validate(req.body).value]

\* validateUserData: 422 with the details, or req.validatedData and next()
validateUserData(req) ==
    LET res == validate(req.body) IN
    IF res.details # <<>>
    THEN [req EXCEPT !.pc = "done", !.status = 422, !.errors = res.details]
    ELSE [req EXCEPT !.pc = "read", !.vdata = res.value]

(***************************************************************************)
(* The requests the clients send.                                          *)
(***************************************************************************)
AnnLee ==
    [k \in {"firstName", "lastName", "age", "email"} |->
        CASE k = "firstName" -> Str(<<"A", "n", "n">>)
          [] k = "lastName" -> Str(<<"L", "e", "e">>)
          [] k = "age" -> Num(30)
          [] k = "email" -> Str(<<"a", "@", "b", ".", "c", "o", "m">>)]

AlPoe ==
    [k \in {"firstName", "lastName", "age", "email", "city", "hobbies"} |->
        CASE k = "firstName" -> Str(<<"A", "l">>)
          [] k = "lastName" -> Str(<<"P", "o", "e">>)
          [] k = "age" -> Num(41)
          [] k = "email" -> Str(<<"p", "@", "e", ".", "o", "r", "g">>)
          [] k = "city" -> Str(<<"P", "a", "r", "i", "s">>)
          [] k = "hobbies" -> Arr(<<Str(<<"s", "k", "i">>)>>)]

\* AnnLee with the age and isActive sent as strings
AnnStr ==
    Spread(AnnLee, [k \in {"age", "isActive"} |->
        IF k = "age" THEN Str(<<"3", "0">>) ELSE Str(<<"F", "A", "L", "S", "E">>)])

\* {"firstName":"A","age":200,"email":"bad"}
Bad ==
    [k \in {"firstName", "age", "email"} |->
        CASE k = "firstName" -> Str(<<"A">>)
          [] k = "age" -> Num(200)
          [] k = "email" -> Str(<<"b", "a", "d">>)]

\* AnnLee with a key the schema does not name
Extra == Spread(AnnLee, [k \in {"nick"} |-> Str(<<"a", "n", "n", "i", "e">>)])

\* a partial body
CityOnly == [k \in {"city"} |-> Str(<<"R", "o", "m", "e">>)]

\* AnnLee with an id and a createdAt of the client's own
Forged ==
    Spread(AnnLee, [k \in {"id", "createdAt"} |->
        IF k = "id" THEN generateUserId(1) ELSE toISOString(9)])

\* AnnLee with hobbies that are not strings: a number and ""
Hobbyist == Spread(AnnLee, [k \in {"hobbies"} |-> Arr(<<Num(7), Str(<<>>)>>)])

\* the bodies sent to POST, to PUT and to PATCH
PostBodies == {AnnLee, AlPoe, AnnStr, Bad, Extra, Hobbyist}
PutBodies == {AnnLee, Bad, Forged}
PatchBodies == {AnnStr, CityOnly, Forged}

\* the ids the clients ask for
ParamIds == {generateUserId(0), generateUserId(1)}

Queries ==
    {[k \in {} |-> <<>>],
     [k \in {"city", "isActive"} |->
        IF k = "city" THEN <<"P", "A", "R", "I", "S">> ELSE <<"t", "r", "u", "e">>],
     [k \in {"q", "isActive"} |->
        IF k = "q" THEN <<"L", "E">> ELSE <<"f", "a", "l", "s", "e">>]}

(***************************************************************************)
(* A request arrives: the route's middleware and the handler run up to    *)
(* the first await, the fs.readFile of readUsersFile.                      *)
(***************************************************************************)
Free(r) == reqs[r].pc \in {"idle", "done"}

\* the request takes the first slot that handles none; last keeps the
\* response the slot held when it was the 201 of a POST or the 200 of a PUT
Arrives(r) ==
    LET req == reqs[r] IN
    /\ Free(r)
    /\ \A q \in Slots : q < r => ~Free(q)
    /\ arrived' = arrived + 1
    /\ last' = IF req.method \in {"POST", "PUT"} /\ req.status \in {200, 201}
               THEN [method |-> req.method, id |-> req.id, body |-> req.body,
                     status |-> req.status, data |-> req.data]
               ELSE NoResp
    /\ UNCHANGED <<file, now, nextId, births, deleted>>

GetUsers(r, query) ==
    /\ Arrives(r)
    /\ reqs' = [reqs EXCEPT ![r] =
            [NoReq EXCEPT !.pc = "read", !.method = "LIST", !.query = query, !.pre = file]]

GetUser(r, id) ==
    /\ Arrives(r)
    /\ reqs' = [reqs EXCEPT ![r] =
            [NoReq EXCEPT !.pc = "read", !.method = "GET", !.id = id, !.pre = file]]

PostUser(r, body) ==
    /\ Arrives(r)
    /\ reqs' = [reqs EXCEPT ![r] =
            validateUserData([NoReq EXCEPT !.method = "POST", !.body = body, !.pre = file])]

PutUser(r, id, body) ==
    /\ Arrives(r)
    /\ reqs' = [reqs EXCEPT ![r] =
            validateUserData([NoReq EXCEPT !.method = "PUT", !.id = id, !.body = body,
                                           !.pre = file])]

PatchUser(r, id, body) ==
    /\ Arrives(r)
    /\ reqs' = [reqs EXCEPT ![r] =
            [NoReq EXCEPT !.pc = "read", !.method = "PATCH", !.id = id, !.body = body,
                          !.pre = file]]

DeleteUser(r, id) ==
    /\ Arrives(r)
    /\ reqs' = [reqs EXCEPT ![r] =
            [NoReq EXCEPT !.pc = "read", !.method = "DELETE", !.id = id, !.pre = file]]

(***************************************************************************)
(* readUsersFile returns users to the handler of request r, which runs to  *)
(* its response or to the fs.writeFile of writeUsersFile.  new Date()      *)
(* shows the clock's last reading or a later one; POST reads it twice.     *)
(***************************************************************************)
Handle(req, users, k, t1, t2) ==
    CASE req.method = "LIST" -> ListHandler(req, users)
      [] req.method = "GET" -> GetHandler(req, users)
      [] req.method = "POST" -> PostHandler(req, users, generateUserId(k), t1, t2)
      [] req.method = "PUT" -> PutHandler(req, users, t1)
      [] req.method = "PATCH" -> PatchHandler(req, users, t1)
      [] req.method = "DELETE" -> DeleteHandler(req, users)

Resume(r, users) ==
    LET req == reqs[r] IN
    \E t1 \in {now, now + 1} :
        \E t2 \in (IF req.method = "POST" THEN {t1, t1 + 1} ELSE {t1}) :
            LET next == Handle(req, users, nextId, t1, t2) IN
            /\ t2 <= MaxClock
            /\ req.method \in {"LIST", "GET", "DELETE"} => t1 = now
            /\ now' = t2
            /\ reqs' = [reqs EXCEPT ![r] = next]
            /\ nextId' = IF req.method = "POST" THEN nextId + 1 ELSE nextId
            /\ births' = IF req.method = "POST"
                         THEN births \cup {[id |-> next.data.id,
                                            createdAt |-> next.data.createdAt]}
                         ELSE births
            /\ UNCHANGED <<arrived, last, deleted>>

\* fs.readFile gives the content of the file
ReadFileDone(r) ==
    /\ reqs[r].pc = "read"
    /\ file.st = "ok"
    /\ Resume(r, file.users)
    /\ UNCHANGED file

\* fs.readFile fails with ENOENT: readUsersFile starts fs.writeFile of "[]"
ReadFileENOENT(r) ==
    /\ reqs[r].pc = "read"
    /\ file.st = "absent"
    /\ reqs' = [reqs EXCEPT ![r].pc = "init"]
    /\ UNCHANGED <<file, now, nextId, arrived, last, births, deleted>>

\* that fs.writeFile ends: the file holds "[]" and readUsersFile returns []
InitFileDone(r) ==
    /\ reqs[r].pc = "init"
    /\ file' = [st |-> "ok", users |-> <<>>]
    /\ Resume(r, <<>>)

\* as if the save of a POST added its record to what the file holds by then
WriteFileDoneMerges(r) ==
    LET req == reqs[r] IN
    /\ req.pc = "write"
    /\ file' = [st |-> "ok",
                users |-> IF req.method = "POST" THEN Append(file.users, req.data)
                          ELSE req.users]
    /\ reqs' = [reqs EXCEPT ![r].pc = "done",
                            ![r].status = IF req.method = "POST" THEN 201 ELSE 200]
    /\ deleted' = IF req.method = "DELETE" THEN deleted \cup {req.data.id} ELSE deleted
    /\ UNCHANGED <<now, nextId, arrived, last, births>>

\* the fs.writeFile of writeUsersFile ends: the file holds the handler's
\* array, and the handler responds
WriteFileDone(r) ==
    LET req == reqs[r] IN
    /\ req.pc = "write"
    /\ file' = [st |-> "ok", users |-> req.users]
    /\ reqs' = [reqs EXCEPT ![r].pc = "done",
                            ![r].status = IF req.method = "POST" THEN 201 ELSE 200]
    /\ deleted' = IF req.method = "DELETE" THEN deleted \cup {req.data.id} ELSE deleted
    /\ UNCHANGED <<now, nextId, arrived, last, births>>

(***************************************************************************)
(* The storage fails.  The catch block of the handler answers 500; error   *)
(* is what it caught.  A fs.writeFile that fails leaves the file as it     *)
(* was or leaves it cut short, with content JSON.parse rejects.            *)
(***************************************************************************)
\* as if the catch block answered with the status of success
CaughtAnswersSuccess(req, error) ==
    [req EXCEPT !.pc = "done", !.status = IF req.method = "POST" THEN 201 ELSE 200,
                !.error = error]

\* the catch block of a handler
Caught(req, error) == [req EXCEPT !.pc = "done", !.status = 500, !.error = error]

\* what a failed fs.writeFile may leave behind
AfterFailedWrite == {file, [st |-> "corrupt", users |-> <<>>]}

\* fs.readFile fails with an error that is not ENOENT
ReadFileFails(r) ==
    /\ reqs[r].pc = "read"
    /\ file.st # "absent"
    /\ reqs' = [reqs EXCEPT ![r] = Caught(reqs[r], "EACCES")]
    /\ UNCHANGED <<file, now, nextId, arrived, last, births, deleted>>

\* fs.readFile gives content JSON.parse throws on
ParseFails(r) ==
    /\ reqs[r].pc = "read"
    /\ file.st = "corrupt"
    /\ reqs' = [reqs EXCEPT ![r] = Caught(reqs[r], "SyntaxError")]
    /\ UNCHANGED <<file, now, nextId, arrived, last, births, deleted>>

\* the fs.writeFile of "[]" in readUsersFile fails
InitFileFails(r) ==
    /\ reqs[r].pc = "init"
    /\ file' \in AfterFailedWrite
    /\ reqs' = [reqs EXCEPT ![r] = Caught(reqs[r], "EIO")]
    /\ UNCHANGED <<now, nextId, arrived, last, births, deleted>>

\* the fs.writeFile of writeUsersFile fails
WriteFileFails(r) ==
    /\ reqs[r].pc = "write"
    /\ file' \in AfterFailedWrite
    /\ reqs' = [reqs EXCEPT ![r] = Caught(reqs[r], "EIO")]
    /\ UNCHANGED <<now, nextId, arrived, last, births, deleted>>

Init ==
    /\ file \in {[st |-> "absent", users |-> <<>>], [st |-> "ok", users |-> <<>>]}
    /\ reqs = [r \in Slots |-> NoReq]
    /\ now = 0
    /\ nextId = 0
    /\ arrived = 0
    /\ last = NoResp
    /\ births = {}
    /\ deleted = {}

\* no request is being handled
Quiet == \A r \in Slots : Free(r)

\* the requests sent while others are being handled
RacingQueries == {[k \in {} |-> <<>>]}
RacingIds == {generateUserId(0)}
RacingPosts == {AnnLee, Bad}
RacingPuts == {AlPoe, Bad, Forged}
RacingPatches == {AnnStr, CityOnly, Forged}

Next ==
    \/ \E r \in Slots, query \in RacingQueries : arrived < MaxRacing /\ GetUsers(r, query)
    \/ \E r \in Slots, id \in RacingIds : arrived < MaxRacing /\ GetUser(r, id)
    \/ \E r \in Slots, body \in RacingPosts : arrived < MaxRacing /\ PostUser(r, body)
    \/ \E r \in Slots, id \in RacingIds, body \in RacingPuts :
            arrived < MaxRacing /\ PutUser(r, id, body)
    \/ \E r \in Slots, id \in RacingIds, body \in RacingPatches :
            arrived < MaxRacing /\ PatchUser(r, id, body)
    \/ \E r \in Slots, id \in RacingIds : arrived < MaxRacing /\ DeleteUser(r, id)
    \/ \E r \in Slots : ReadFileDone(r)
    \/ \E r \in Slots : ReadFileENOENT(r)
    \/ \E r \in Slots : InitFileDone(r)
    \/ \E r \in Slots : WriteFileDone(r)

\* requests interleave at their awaits
Spec == Init /\ [][Next]_vars

\* requests are processed one at a time: none arrives while another is handled
NextSeq ==
    \/ \E query \in Queries : Quiet /\ arrived < MaxRequests /\ GetUsers(1, query)
    \/ \E id \in ParamIds : Quiet /\ arrived < MaxRequests /\ GetUser(1, id)
    \/ \E body \in PostBodies : Quiet /\ arrived < MaxRequests /\ PostUser(1, body)
    \/ \E id \in ParamIds, body \in PutBodies :
            Quiet /\ arrived < MaxRequests /\ PutUser(1, id, body)
    \/ \E id \in ParamIds, body \in PatchBodies :
            Quiet /\ arrived < MaxRequests /\ PatchUser(1, id, body)
    \/ \E id \in ParamIds : Quiet /\ arrived < MaxRequests /\ DeleteUser(1, id)
    \/ \E r \in Slots : ReadFileDone(r)
    \/ \E r \in Slots : ReadFileENOENT(r)
    \/ \E r \in Slots : InitFileDone(r)
    \/ \E r \in Slots : WriteFileDone(r)

SpecSeq == Init /\ [][NextSeq]_vars

\* an await of request r ends, well or badly
Settles(r) ==
    \/ ReadFileDone(r)
    \/ ReadFileENOENT(r)
    \/ InitFileDone(r)
    \/ WriteFileDone(r)
    \/ ReadFileFails(r)
    \/ ParseFails(r)
    \/ InitFileFails(r)
    \/ WriteFileFails(r)

\* the bodies sent to PUT and to PATCH while the storage may fail
FaultyPuts == {AlPoe}
FaultyPatches == {AnnStr, CityOnly}

NextFaulty ==
    \/ \E query \in RacingQueries : Quiet /\ arrived < MaxRequests /\ GetUsers(1, query)
    \/ \E id \in RacingIds : Quiet /\ arrived < MaxRequests /\ GetUser(1, id)
    \/ \E body \in RacingPosts : Quiet /\ arrived < MaxRequests /\ PostUser(1, body)
    \/ \E id \in RacingIds, body \in FaultyPuts :
            Quiet /\ arrived < MaxRequests /\ PutUser(1, id, body)
    \/ \E id \in RacingIds, body \in FaultyPatches :
            Quiet /\ arrived < MaxRequests /\ PatchUser(1, id, body)
    \/ \E id \in RacingIds : Quiet /\ arrived < MaxRequests /\ DeleteUser(1, id)
    \/ \E r \in Slots : ReadFileDone(r)
    \/ \E r \in Slots : ReadFileENOENT(r)
    \/ \E r \in Slots : InitFileDone(r)
    \/ \E r \in Slots : WriteFileDone(r)
    \/ \E r \in Slots : ReadFileFails(r)
    \/ \E r \in Slots : ParseFails(r)
    \/ \E r \in Slots : InitFileFails(r)
    \/ \E r \in Slots : WriteFileFails(r)

\* requests are processed one at a time, the storage may fail, and no promise
\* stays pending for ever: every fs.readFile and fs.writeFile ends
SpecFaulty == Init /\ [][NextFaulty]_vars /\ \A r \in Slots : WF_vars(Settles(r))

(***************************************************************************)
(* What userSchema asks of a body and of a stored record.                  *)
(***************************************************************************)
\* the value has the type and the range the schema gives the key
FieldTyped(key, v) ==
    CASE key \in {"firstName", "lastName", "city"} ->
            v.t = "str" /\ Len(v.s) >= MinNameLen /\ Len(v.s) <= MaxNameLen
      [] key = "age" -> v.t = "num" /\ v.n >= MinAge /\ v.n <= MaxAge
      [] key = "email" -> v.t = "str" /\ IsEmail(v.s)
      [] key = "hobbies" ->
            v.t = "arr" /\ \A i \in 1..Len(v.a) : v.a[i].t = "str" /\ Len(v.a[i].s) > 0
      [] key = "isActive" -> v.t = "bool"

\* the body passes userSchema: the required keys, no key the schema does
\* not name, and every value of the schema's type once Joi has converted it
SatisfiesSchema(body) ==
    /\ RequiredKeys \subseteq DOMAIN body
    /\ (DOMAIN body) \subseteq SchemaKeys
    /\ \A key \in DOMAIN body : FieldTyped(key, Normalized(key, body))

\* a stored record holds the required fields, hobbies and isActive, and
\* every field of the schema it holds has the schema's type
RecordValid(user) ==
    /\ RequiredKeys \cup {"hobbies", "isActive"} \subseteq DOMAIN user
    /\ \A key \in (DOMAIN user) \cap SchemaKeys : FieldTyped(key, user[key])

MetaKeys == {"id", "createdAt", "updatedAt"}

\* the object without the keys in keys
Without(obj, keys) == [k \in (DOMAIN obj) \ keys |-> obj[k]]

\* the ids of the records of a collection
IdsOf(users) == {users[i].id : i \in 1..Len(users)}

(***************************************************************************)
(* C1.  Processed one at a time, a POST whose body satisfies the schema    *)
(* responds 201 with a record whose id no record had before; the record    *)
(* is appended to the file; and the GET of that id that follows responds   *)
(* 200 with the same record.                                               *)
(***************************************************************************)
C1_PostThenGet ==
    \A r \in Slots :
        LET req == reqs[r] IN
        /\ (req.method = "POST" /\ SatisfiesSchema(req.body) /\ req.pc = "done") =>
                /\ req.status = 201
                /\ req.data.id \notin IdsOf(req.pre.users)
                /\ file.users = Append(req.pre.users, req.data)
        /\ (/\ req.method = "GET" /\ req.pc = "done"
            /\ last.method = "POST" /\ last.status = 201
            /\ req.id = last.data.id) =>
                /\ req.status = 200
                /\ req.data = last.data

C1_Witness ==
    \E r \in Slots :
        /\ reqs[r].method = "GET" /\ reqs[r].pc = "done" /\ reqs[r].status = 200
        /\ last.method = "POST" /\ last.status = 201
        /\ reqs[r].id = last.data.id
        /\ Len(file.users) = 2

(***************************************************************************)
(* C2.  A POST or a PUT whose body violates the schema is answered 422 in  *)
(* the step it arrives in, and that step leaves the file as it was,        *)
(* whether or not the id of the PUT exists.                                *)
(***************************************************************************)
C2_InvalidRejected ==
    [][\A r \in Slots :
        (/\ reqs'[r] # reqs[r]
         /\ reqs'[r].method \in {"POST", "PUT"}
         /\ ~SatisfiesSchema(reqs'[r].body)) =>
            /\ reqs'[r].pc = "done"
            /\ reqs'[r].status = 422
            /\ file' = file]_vars

C2_Witness ==
    \E r \in Slots :
        /\ reqs[r].method = "PUT" /\ reqs[r].pc = "done" /\ reqs[r].status = 422
        /\ reqs[r].id \in IdsOf(file.users)

(***************************************************************************)
(* C3.  Processed one at a time, once a DELETE of an id has responded 200  *)
(* every GET of that id responds 404, whatever came in between.            *)
(***************************************************************************)
C3_DeletedStaysGone ==
    \A r \in Slots :
        (reqs[r].method = "GET" /\ reqs[r].pc = "done" /\ reqs[r].id \in deleted) =>
            reqs[r].status = 404

C3_Witness ==
    \E r \in Slots :
        /\ reqs[r].method = "GET" /\ reqs[r].pc = "done" /\ reqs[r].id \in deleted
        /\ reqs[r].status = 404
        /\ Len(file.users) > 0

(***************************************************************************)
(* C4.  Processed one at a time, a valid PUT of an existing id repeated    *)
(* right after itself leaves the record the first PUT stored, with         *)
(* updatedAt set to the time of the second PUT, and leaves the other       *)
(* records as they were.                                                   *)
(***************************************************************************)
PutRepeated(req) ==
    /\ req.method = "PUT" /\ req.pc = "done" /\ req.status = 200
    /\ last.method = "PUT" /\ last.status = 200
    /\ last.id = req.id /\ last.body = req.body

C4_PutTwice ==
    \A r \in Slots :
        LET req == reqs[r] IN
        PutRepeated(req) =>
            /\ req.pre.users[req.idx] = last.data
            /\ file.users = [req.pre.users EXCEPT ![req.idx] =
                                [last.data EXCEPT !["updatedAt"] = toISOString(now)]]

C4_Witness ==
    \E r \in Slots :
        /\ PutRepeated(reqs[r])
        /\ file.users[reqs[r].idx].updatedAt # last.data.updatedAt
        /\ Len(file.users) = 2

(***************************************************************************)
(* C5.  After a PUT that responds 200, every field of the stored record    *)
(* other than id, createdAt and updatedAt is the field of the validated    *)
(* body: a city the record held and the body omits is gone.                *)
(***************************************************************************)
C5_PutReplaces ==
    \A r \in Slots :
        LET req == reqs[r] IN
        (req.method = "PUT" /\ req.pc = "done" /\ req.status = 200) =>
            Without(file.users[req.idx], MetaKeys) = req.vdata

(***************************************************************************)
(* C6.  PATCH of an existing id validates the body merged over the stored  *)
(* record: when the merged record satisfies the schema the response is     *)
(* 200 and the merged record is stored with updatedAt refreshed; when it   *)
(* does not, the response is 422 and the file is as it was.                *)
(***************************************************************************)
C6_PatchValidatesMerged ==
    \A r \in Slots :
        LET req == reqs[r]
            i == findIndex(req.pre.users, req.id)
            merged == Spread(req.pre.users[i], req.body)
        IN  (req.method = "PATCH" /\ req.pc = "done" /\ i # 0) =>
                IF SatisfiesSchema(Without(merged, MetaKeys))
                THEN /\ req.status = 200
                     /\ file.users = [req.pre.users EXCEPT ![i] =
                            Spread(merged, [k \in {"updatedAt"} |-> toISOString(now)])]
                ELSE /\ req.status = 422
                     /\ file.users = req.pre.users

(***************************************************************************)
(* C7.  A POST whose body satisfies the schema but for one key the schema  *)
(* does not name.  As claimed: it responds 201 and the record lacks the    *)
(* key.  As the code has it: it responds 422 with an entry for each such   *)
(* key, and the file is as it was.                                         *)
(***************************************************************************)
CarriesUnknown(req) ==
    /\ req.method = "POST" /\ req.pc = "done"
    /\ (DOMAIN req.body) \ SchemaKeys # {}
    /\ SatisfiesSchema(Without(req.body, (DOMAIN req.body) \ SchemaKeys))

C7_UnknownDropped ==
    \A r \in Slots :
        CarriesUnknown(reqs[r]) =>
            /\ reqs[r].status = 201
            /\ (DOMAIN reqs[r].data) \cap ((DOMAIN reqs[r].body) \ SchemaKeys) = {}

C7_UnknownRejected ==
    \A r \in Slots :
        LET req == reqs[r] IN
        CarriesUnknown(req) =>
            /\ req.status = 422
            /\ {req.errors[i].field : i \in 1..Len(req.errors)} = (DOMAIN req.body) \ SchemaKeys
            /\ file = req.pre

C7_Witness ==
    \E r \in Slots :
        /\ CarriesUnknown(reqs[r])
        /\ reqs[r].status = 422
        /\ Len(file.users) > 0

(***************************************************************************)
(* C8.  In every interleaving, a record of the file has the id and the     *)
(* createdAt the POST that created it gave it, and the record a PUT or a   *)
(* PATCH puts at the position it updates has the id that was there.        *)
(***************************************************************************)
C8_IdAndCreatedAtKept ==
    /\ \A i \in 1..Len(file.users) :
            [id |-> file.users[i].id, createdAt |-> file.users[i].createdAt] \in births
    /\ \A r \in Slots :
            LET req == reqs[r] IN
            (req.method \in {"PUT", "PATCH"} /\ req.idx # 0) =>
                /\ req.users[req.idx].id = req.id
                /\ req.data.id = req.id

C8_Witness ==
    \E r \in Slots :
        LET req == reqs[r] IN
        /\ req.method \in {"PUT", "PATCH"} /\ req.pc = "done" /\ req.status = 200
        /\ file.users[req.idx] = req.data
        /\ req.data.updatedAt # req.data.createdAt

(***************************************************************************)
(* C9.  From an absent or empty file, with identifiers that never repeat,  *)
(* no two records of the file have the same id, in every interleaving.     *)
(***************************************************************************)
C9_UniqueIds ==
    \A i, j \in 1..Len(file.users) :
        file.users[i].id = file.users[j].id => i = j

C9_Witness == Len(file.users) = 2 /\ \A r \in Slots : reqs[r].method = "POST"

(***************************************************************************)
(* C10.  From an absent or empty file, every record of the file satisfies  *)
(* the schema: names of 2 to 50 characters, a numeric age from 1 to 120,   *)
(* a valid email, hobbies a sequence of strings, isActive a boolean.       *)
(***************************************************************************)
C10_StoredRecordsValid ==
    \A i \in 1..Len(file.users) : RecordValid(file.users[i])

(***************************************************************************)
(* C11.  The lost update.  Two requests, a POST and a POST or a POST and   *)
(* a DELETE, were given the same array by readUsersFile and one has        *)
(* already answered 201 or 200.  The step in which the save of the other   *)
(* ends answers 201 or 200 too and leaves in the file that request's       *)
(* array alone: the record of the earlier POST is not in it, the record    *)
(* the earlier DELETE removed is in it again.                              *)
(***************************************************************************)
\* the array readUsersFile gave the handler of a POST or a DELETE that went
\* on to save
LoadedBy(req) ==
    IF req.method = "POST" THEN SubSeq(req.users, 1, Len(req.users) - 1)
    ELSE SubSeq(req.users, 1, req.idx - 1) \o <<req.data>>
            \o SubSeq(req.users, req.idx, Len(req.users))

\* q has answered with success, r is about to save, and both were given
\* the same array
SameLoad(q, r) ==
    /\ q # r
    /\ reqs[q].pc = "done" /\ reqs[q].status \in {200, 201}
    /\ reqs[r].pc = "write"
    /\ {reqs[q].method, reqs[r].method} \in {{"POST"}, {"POST", "DELETE"}}
    /\ LoadedBy(reqs[q]) = LoadedBy(reqs[r])

C11_LostUpdate ==
    [][\A q, r \in Slots :
        (SameLoad(q, r) /\ reqs'[r].pc = "done") =>
            /\ reqs'[r].status \in {200, 201}
            /\ file'.users = reqs[r].users
            /\ IF reqs[q].method = "POST"
               THEN reqs[q].data.id \notin IdsOf(file'.users)
               ELSE reqs[q].data.id \in IdsOf(file'.users)]_vars

C11_Witness ==
    \E q, r \in Slots :
        /\ q # r
        /\ reqs[q].method = "POST" /\ reqs[q].pc = "done" /\ reqs[q].status = 201
        /\ reqs[r].method = "POST" /\ reqs[r].pc = "done" /\ reqs[r].status = 201
        /\ LoadedBy(reqs[q]) = LoadedBy(reqs[r])
        /\ file.users = <<reqs[r].data>>

(***************************************************************************)
(* C12.  readUsersFile initialises an absent file atomically: the step in  *)
(* which the fs.writeFile of "[]" ends never changes a file that exists    *)
(* by then, so the record of a POST answered 201 is never taken out of     *)
(* the file by the GET that ran beside it.                                 *)
(***************************************************************************)
C12_InitAtomic ==
    [][\A r \in Slots :
        (reqs[r].pc = "init" /\ reqs'[r].pc # "init" /\ file.st = "ok") =>
            file'.users = file.users]_vars

(***************************************************************************)
(* C13.  Processed one at a time, GET /v1/users answers 200 with the       *)
(* records of the file that pass every filter the query supplies, in the   *)
(* order of the file, and meta.total and meta.returned are their number.   *)
(* q passes when, lower-cased, it is part of the lower-cased firstName or  *)
(* lastName; city passes when the record has a city equal to it ignoring   *)
(* case; isActive passes when the record's isActive is the boolean         *)
(* (value = "true").  An absent or empty filter lets every record pass.    *)
(***************************************************************************)
\* the record passes every filter the query supplies
Passes(user, query) ==
    /\ Supplied(query, "q") =>
            \E name \in {user.firstName.s, user.lastName.s} :
                includes(toLowerCase(name), toLowerCase(query.q))
    /\ Supplied(query, "city") =>
            /\ "city" \in DOMAIN user
            /\ toLowerCase(user.city.s) = toLowerCase(query.city)
    /\ Supplied(query, "isActive") =>
            /\ user.isActive.t = "bool"
            /\ user.isActive.b = (query.isActive = <<"t", "r", "u", "e">>)

C13_ListFilters ==
    \A r \in Slots :
        LET req == reqs[r]
            users == req.pre.users
            kept == {i \in 1..Len(users) : Passes(users[i], req.query)}
            nth(j) == CHOOSE i \in kept : Cardinality({k \in kept : k < i}) = j - 1
        IN  (req.method = "LIST" /\ req.pc = "done") =>
                /\ req.status = 200
                /\ Len(req.list) = Cardinality(kept)
                /\ \A j \in 1..Len(req.list) : req.list[j] = users[nth(j)]
                /\ req.meta.total = Cardinality(kept)
                /\ req.meta.returned = Cardinality(kept)

C13_Witness ==
    \E r \in Slots :
        LET req == reqs[r] IN
        /\ req.method = "LIST" /\ req.pc = "done" /\ req.status = 200
        /\ Supplied(req.query, "city") /\ Supplied(req.query, "isActive")
        /\ Len(req.pre.users) = 2
        /\ Len(req.list) = 1
        /\ req.list[1].city = Str(<<"P", "a", "r", "i", "s">>)
        /\ req.meta.total = 1

(***************************************************************************)
(* C14.  Every record a POST answers 201 with has createdAt equal to       *)
(* updatedAt, however the clock advances while the handler runs.           *)
(***************************************************************************)
C14_CreatedIsUpdated ==
    \A r \in Slots :
        (reqs[r].method = "POST" /\ reqs[r].status = 201) =>
            reqs[r].data.createdAt = reqs[r].data.updatedAt

(***************************************************************************)
(* C15.  When the storage fails.  A request whose fs.readFile fails with   *)
(* an error other than ENOENT, or reads content that does not parse, is    *)
(* answered 500 in that step and the step leaves the file as it was; a     *)
(* request whose fs.writeFile fails is answered 500 and with no other      *)
(* status; no other request is touched, and the slot of the request is     *)
(* free for the next request.                                              *)
(***************************************************************************)
C15_StorageFailure ==
    [][\A r \in Slots :
        LET was == reqs[r]
            req == reqs'[r]
        IN  (was.pc \in {"read", "init", "write"} /\ req.error # "none") =>
                /\ req.pc = "done" /\ req.status = 500
                /\ req.data = was.data /\ req.list = was.list
                /\ was.pc = "read" => file' = file
                /\ was.pc = "write" => file'.st \in {file.st, "corrupt"}
                /\ file'.st = file.st => file' = file
                /\ \A q \in Slots \ {r} : reqs'[q] = reqs[q]]_vars

C15_Witness ==
    \E r \in Slots :
        /\ reqs[r].method \in {"GET", "LIST"} /\ reqs[r].error = "SyntaxError"
        /\ reqs[r].pc = "done" /\ reqs[r].status = 500
        /\ file.st = "corrupt"
        /\ births # {}

(***************************************************************************)
(* C16.  A 422 names each field of the body that breaks the schema, once:  *)
(* the field names of its errors are the keys that are required and        *)
(* missing, or whose value has the wrong type, range or format, or that    *)
(* the schema does not name, and there are as many errors as such keys.    *)
(* The body {firstName: "A", age: 200, email: "bad"} gets four errors:     *)
(* firstName, lastName, age and email.                                     *)
(***************************************************************************)
\* the keys on which the body breaks the schema
Violating(body) ==
    {key \in RequiredKeys : key \notin DOMAIN body}
        \cup {key \in (DOMAIN body) \cap SchemaKeys : ~FieldTyped(key, Normalized(key, body))}
        \cup ((DOMAIN body) \ SchemaKeys)

C16_OneErrorPerField ==
    \A r \in Slots :
        LET req == reqs[r]
            fields == {req.errors[i].field : i \in 1..Len(req.errors)}
        IN  (req.pc = "done" /\ req.status = 422) =>
                /\ fields = Violating(req.body)
                /\ Len(req.errors) = Cardinality(fields)
                /\ req.body = Bad => fields = {"firstName", "lastName", "age", "email"}

(***************************************************************************)
(* C17.  Processed one at a time, the records keep the order they were     *)
(* created in.  A POST answered 201 puts its record after the others; a    *)
(* PUT or a PATCH answered 200 changes the record of its id where it       *)
(* stands; a DELETE answered 200 takes out the record of its id and no     *)
(* other; and every other record is, in order and content, as it was.      *)
(***************************************************************************)
C17_OrderKept ==
    \A r \in Slots :
        LET req == reqs[r]
            old == req.pre.users
            new == file.users
        IN  (req.pc = "done" /\ req.status \in {200, 201}) =>
                CASE req.method = "POST" ->
                        /\ Len(new) = Len(old) + 1
                        /\ \A i \in 1..Len(old) : new[i] = old[i]
                        /\ new[Len(new)] = req.data
                  [] req.method \in {"PUT", "PATCH"} ->
                        /\ Len(new) = Len(old)
                        /\ old[req.idx].id = req.id
                        /\ new[req.idx] = req.data
                        /\ \A i \in 1..Len(old) : i # req.idx => new[i] = old[i]
                  [] req.method = "DELETE" ->
                        /\ Len(new) = Len(old) - 1
                        /\ old[req.idx].id = req.id
                        /\ \A i \in 1..Len(new) :
                                new[i] = IF i < req.idx THEN old[i] ELSE old[i + 1]
                  [] OTHER -> new = old

C17_Witness ==
    \E r \in Slots :
        LET req == reqs[r] IN
        /\ req.method = "DELETE" /\ req.pc = "done" /\ req.status = 200
        /\ Len(req.pre.users) = 2 /\ req.idx = 1
        /\ file.users = <<req.pre.users[2]>>

C19_PutPatchOrder ==
    \A r \in Slots :
        LET req == reqs[r]
            exists == req.id \in IdsOf(req.pre.users)
        IN  (/\ req.method \in {"PUT", "PATCH"} /\ req.pc = "done"
             /\ ~SatisfiesSchema(req.body)) =>
                /\ req.status = IF req.method = "PATCH" /\ ~exists THEN 404 ELSE 422
                /\ file.users = req.pre.users
                /\ req.method = "PUT" => file = req.pre

C19_Witness ==
    \E r \in Slots :
        LET req == reqs[r] IN
        /\ req.method = "PATCH" /\ req.pc = "done" /\ req.status = 404
        /\ ~SatisfiesSchema(req.body)
        /\ last.method = "PUT" /\ last.status = 200
        /\ Len(file.users) = 1

(***************************************************************************)
(* C20.  In every interleaving, a request that arrived when the file       *)
(* existed and that is a GET, or is answered 404 or 422, saves nothing:    *)
(* every step it takes leaves the file as that step found it.              *)
(***************************************************************************)
C20_ReadersSaveNothing ==
    [][\A r \in Slots :
        LET req == reqs'[r] IN
        (/\ reqs'[r] # reqs[r]
         /\ req.pre.st = "ok"
         /\ (req.method \in {"GET", "LIST"} \/ req.status \in {404, 422})) =>
            file' = file]_vars

C20_Witness ==
    \E q, r \in Slots :
        /\ reqs[q].method \in {"GET", "LIST"} /\ reqs[q].pc = "done"
        /\ reqs[q].status = 200 /\ reqs[q].pre.st = "ok"
        /\ reqs[r].method = "DELETE" /\ reqs[r].pc = "done" /\ reqs[r].status = 404
        /\ reqs[r].pre.st = "ok"
        /\ file.st = "ok"

====
